---- MODULE Spec2Model ----
(***************************************************************************)
(* cdbpatch: rewriting the entries of a compilation database               *)
(* (src/src/main.rs).                                                      *)
(*                                                                         *)
(* A string is a sequence of one-character strings, so that prefix tests,  *)
(* trimming, line splitting, shell-word splitting and escaping are done    *)
(* character by character, as the code does them.                          *)
(***************************************************************************)
EXTENDS Integers, Sequences, FiniteSets, TLC

(***************************************************************************)
(* Bounds of the model.                                                    *)
(***************************************************************************)
\* number of entries of the database in the concurrent specification
NumEntries == 2
\* number of rayon workers in the concurrent specification
NumWorkers == 2
\* longest command string of the round-trip specification
MaxLen == 4

(***************************************************************************)
(* Strings.                                                                *)
(***************************************************************************)
\* the characters the model's strings use, in byte order (String's Ord)
ByteOrder ==
    << "\n", " ", "\"", "'", "+", "-", ".", "/", "2", "3", "9", "=",
       "D", "E", "I", "O", "P", "W", "X", "\\",
       "a", "b", "c", "d", "e", "g", "h", "i", "l", "m", "n", "o", "p",
       "r", "s", "t", "u", "v", "x", "y" >>

Ord(c) == CHOOSE i \in 1..Len(ByteOrder) : ByteOrder[i] = c

\* char::is_whitespace / the regex class \s, over the model's characters
IsSpace(c) == c \in {" ", "\n"}

\* str::starts_with
StartsWith(s, p) == Len(s) >= Len(p) /\ SubSeq(s, 1, Len(p)) = p

\* the Some(rest) of str::strip_prefix, where StartsWith(s, p)
StripPrefix(s, p) == SubSeq(s, Len(p) + 1, Len(s))

\* str::contains(char)
Contains(s, c) == \E i \in 1..Len(s) : s[i] = c

\* Ord for String: byte-wise lexicographic, a proper prefix first
RECURSIVE StrLeq(_, _)
StrLeq(a, b) ==
    IF a = <<>> THEN TRUE
    ELSE IF b = <<>> THEN FALSE
    ELSE IF a[1] = b[1] THEN StrLeq(Tail(a), Tail(b))
    ELSE Ord(a[1]) < Ord(b[1])

RECURSIVE Insert(_, _)
Insert(x, sorted) ==
    IF sorted = <<>> THEN <<x>>
    ELSE IF StrLeq(x, sorted[1]) THEN <<x>> \o sorted
    ELSE <<sorted[1]>> \o Insert(x, Tail(sorted))

\* [String]::sort
RECURSIVE Sort(_)
Sort(xs) == IF xs = <<>> THEN <<>> ELSE Insert(xs[1], Sort(Tail(xs)))

\* [String]::join(sep)
RECURSIVE Join(_, _)
Join(words, sep) ==
    IF words = <<>> THEN <<>>
    ELSE IF Len(words) = 1 THEN words[1]
    ELSE words[1] \o sep \o Join(Tail(words), sep)

\* str::trim: leading and trailing whitespace removed
RECURSIVE TrimStart(_)
TrimStart(s) ==
    IF s # <<>> /\ IsSpace(s[1]) THEN TrimStart(Tail(s)) ELSE s

RECURSIVE TrimEnd(_)
TrimEnd(s) ==
    IF s # <<>> /\ IsSpace(s[Len(s)]) THEN TrimEnd(SubSeq(s, 1, Len(s) - 1))
    ELSE s

Trim(s) == TrimEnd(TrimStart(s))

\* str::lines: the pieces between line feeds; a final line feed ends the
\* last line and starts no empty one
RECURSIVE Lines(_)
Lines(s) ==
    IF s = <<>> THEN <<>>
    ELSE IF Contains(s, "\n")
         THEN LET n == CHOOSE i \in 1..Len(s) :
                          s[i] = "\n" /\ \A j \in 1..(i - 1) : s[j] # "\n"
              IN  <<SubSeq(s, 1, n - 1)>> \o Lines(SubSeq(s, n + 1, Len(s)))
         ELSE <<s>>

(***************************************************************************)
(* shellwords::split, called at main.rs:218.  The crate scans the input    *)
(* with one pattern, taken one match per step: optional whitespace, then   *)
(* a run of bare characters, or a single-quoted piece, or a double-quoted  *)
(* piece, or a backslash with the character it escapes, or any other       *)
(* non-space character (a stray quote: MismatchedQuotes); then optionally  *)
(* one whitespace character or the end of the input, which ends the word.  *)
(***************************************************************************)
IsBare(c) == ~IsSpace(c) /\ c \notin {"\\", "'", "\""}

RECURSIVE SkipSpace(_, _)
SkipSpace(s, i) ==
    IF i <= Len(s) /\ IsSpace(s[i]) THEN SkipSpace(s, i + 1) ELSE i

\* the first index from i on that holds no bare character
RECURSIVE BareEnd(_, _)
BareEnd(s, i) ==
    IF i <= Len(s) /\ IsBare(s[i]) THEN BareEnd(s, i + 1) ELSE i

\* the index of the next single quote from i on, 0 if there is none
RECURSIVE SqClose(_, _)
SqClose(s, i) ==
    IF i > Len(s) THEN 0
    ELSE IF s[i] = "'" THEN i
    ELSE SqClose(s, i + 1)

\* the index of the double quote closing a piece whose body starts at i,
\* 0 if there is none: the body is made of characters other than the
\* double quote and the backslash, and of pairs of a backslash and any
\* character but a line feed
RECURSIVE DqClose(_, _)
DqClose(s, i) ==
    IF i > Len(s) THEN 0
    ELSE IF s[i] = "\"" THEN i
    ELSE IF s[i] = "\\"
         THEN IF i + 1 <= Len(s) /\ s[i + 1] # "\n"
              THEN DqClose(s, i + 2)
              ELSE 0
    ELSE DqClose(s, i + 1)

\* METACHAR_PATTERN.replace_all(body, $1): inside double quotes a backslash
\* is dropped before a dollar, a double quote, a backslash and a line feed
\* only (and before a backquote, a character the model's strings lack)
RECURSIVE Unmeta(_)
Unmeta(body) ==
    IF body = <<>> THEN <<>>
    ELSE IF body[1] = "\\" /\ Len(body) >= 2
            /\ body[2] \in {"$", "\"", "\\", "\n"}
         THEN <<body[2]>> \o Unmeta(SubSeq(body, 3, Len(body)))
    ELSE <<body[1]>> \o Unmeta(Tail(body))

\* one match at the non-space position j: the piece and the position after
OnePiece(s, j) ==
    IF IsBare(s[j])
    THEN [ok |-> TRUE, piece |-> SubSeq(s, j, BareEnd(s, j) - 1),
          next |-> BareEnd(s, j)]
    ELSE IF s[j] = "'" /\ SqClose(s, j + 1) # 0
    THEN [ok |-> TRUE, piece |-> SubSeq(s, j + 1, SqClose(s, j + 1) - 1),
          next |-> SqClose(s, j + 1) + 1]
    ELSE IF s[j] = "\"" /\ DqClose(s, j + 1) # 0
    THEN [ok |-> TRUE,
          piece |-> Unmeta(SubSeq(s, j + 1, DqClose(s, j + 1) - 1)),
          next |-> DqClose(s, j + 1) + 1]
    ELSE IF s[j] = "\\"
    THEN IF j + 1 <= Len(s) /\ s[j + 1] # "\n"
         THEN [ok |-> TRUE, piece |-> <<s[j + 1]>>, next |-> j + 2]
         ELSE [ok |-> TRUE, piece |-> <<"\\">>, next |-> j + 1]
    ELSE [ok |-> FALSE, piece |-> <<>>, next |-> j]

RECURSIVE SplitFrom(_, _, _, _)
SplitFrom(s, i, field, words) ==
    LET j == SkipSpace(s, i) IN
    IF j > Len(s) THEN [ok |-> TRUE, words |-> words]
    ELSE LET m == OnePiece(s, j) IN
         IF ~m.ok THEN [ok |-> FALSE, words |-> <<>>]
         ELSE IF m.next > Len(s)
              THEN [ok |-> TRUE, words |-> Append(words, field \o m.piece)]
         ELSE IF IsSpace(s[m.next])
              THEN SplitFrom(s, m.next + 1, <<>>,
                             Append(words, field \o m.piece))
         ELSE SplitFrom(s, m.next, field \o m.piece, words)

\* shellwords::split(input): Ok(words) or Err(MismatchedQuotes)
split(s) == SplitFrom(s, 1, <<>>, <<>>)

(***************************************************************************)
(* cdb_escape                                                              *)
(***************************************************************************)
\* ESCAPE_PATTERN.replace_all(input, backslash $1): a backslash before
\* every double quote and every backslash
RECURSIVE EscapeChars(_)
EscapeChars(input) ==
    IF input = <<>> THEN <<>>
    ELSE IF input[1] \in {"\\", "\""}
         THEN <<"\\", input[1]>> \o EscapeChars(Tail(input))
    ELSE <<input[1]>> \o EscapeChars(Tail(input))

\* quotes added only when a character was escaped
cdb_escape_NoQuoteOnSpace(input) ==
    IF input = <<>> THEN <<"\"", "\"">>
    ELSE LET output == EscapeChars(input) IN
         IF output # input THEN <<"\"">> \o output \o <<"\"">>
         ELSE output

cdb_escape(input) ==
    IF input = <<>> THEN <<"\"", "\"">>
    ELSE LET output == EscapeChars(input) IN
         IF output # input \/ Contains(output, " ")
         THEN <<"\"">> \o output \o <<"\"">>
         ELSE output

(***************************************************************************)
(* file_to_language                                                        *)
(***************************************************************************)
\* the index of the last occurrence of c in s, 0 if there is none
RECURSIVE LastIndex(_, _)
LastIndex(s, c) ==
    IF s = <<>> THEN 0
    ELSE IF s[Len(s)] = c THEN Len(s)
    ELSE LastIndex(SubSeq(s, 1, Len(s) - 1), c)

\* Path::extension: of the last component, what follows its last dot;
\* None if it has no dot or only a leading one
Extension(file) ==
    LET name == SubSeq(file, LastIndex(file, "/") + 1, Len(file))
        dot  == LastIndex(name, ".")
    IN  IF dot <= 1 THEN [some |-> FALSE, ext |-> <<>>]
        ELSE [some |-> TRUE, ext |-> SubSeq(name, dot + 1, Len(name))]

file_to_language(file) ==
    LET e == Extension(file) IN
    IF e.some /\ e.ext = <<"c">> THEN "C"
    ELSE IF e.some /\ (e.ext = <<"c", "p", "p">> \/ e.ext = <<"c", "c">>)
         THEN "Cxx"
    ELSE "None"

(***************************************************************************)
(* ToolchainInfoCache                                                      *)
(***************************************************************************)
F_isystem == <<"-", "i", "s", "y", "s", "t", "e", "m">>
F_nostdinc == <<"-", "n", "o", "s", "t", "d", "i", "n", "c">>
F_x == <<"-", "x">>
F_xc == <<"-", "x", "c">>
F_xcxx == <<"-", "x", "c", "+", "+">>

DEL_ARGS_MAYBETWO ==
    << <<"-", "I">>,
       <<"-", "L">>,
       <<"-", "i", "m", "a", "c", "r", "o", "s">>,
       F_isystem,
       <<"-", "i", "n", "c", "l", "u", "d", "e">>,
       <<"-", "D">>,
       <<"-", "W">>,
       <<"-", "o">>,
       <<"-", "c">>,
       <<"-", "E">>,
       <<"-", "f", "m", "a", "c", "r", "o", "-", "p", "r", "e", "f", "i", "x",
         "-", "m", "a", "p">>,
       <<"-", "O">> >>

\* the fixed probe flags pushed at main.rs:141
ProbeFlags ==
    << <<"-", "P">>, <<"-", "E">>, <<"-", "W", "p", ",", "-", "v">>,
       <<"/", "d", "e", "v", "/", "n", "u", "l", "l">> >>

\* the inner loop over DEL_ARGS_MAYBETWO: the first entry that is a prefix
\* of arg decides (found, and nskip = 1 if nothing follows the prefix)
DelMatch(arg) ==
    IF \E k \in 1..Len(DEL_ARGS_MAYBETWO) : StartsWith(arg, DEL_ARGS_MAYBETWO[k])
    THEN LET k == CHOOSE k \in 1..Len(DEL_ARGS_MAYBETWO) :
                     /\ StartsWith(arg, DEL_ARGS_MAYBETWO[k])
                     /\ \A j \in 1..(k - 1) :
                            ~StartsWith(arg, DEL_ARGS_MAYBETWO[j])
         IN  [found |-> TRUE,
              nskip |-> IF StripPrefix(arg, DEL_ARGS_MAYBETWO[k]) = <<>>
                        THEN 1 ELSE 0]
    ELSE [found |-> FALSE, nskip |-> 0]

\* the loop over command[1..]: the arguments pushed to args, in order
RECURSIVE FilterArgs(_, _, _)
FilterArgs(command, i, nskip) ==
    IF i > Len(command) THEN <<>>
    ELSE IF nskip > 0 THEN FilterArgs(command, i + 1, nskip - 1)
    ELSE LET m == DelMatch(command[i]) IN
         IF m.found THEN FilterArgs(command, i + 1, m.nskip)
         ELSE IF StartsWith(command[i], <<"-">>)
              THEN <<command[i]>> \o FilterArgs(command, i + 1, 0)
         ELSE FilterArgs(command, i + 1, 0)

\* args after args[1..].sort()
SortedArgs(command) == <<command[1]>> \o Sort(FilterArgs(command, 2, 0))

\* args.iter().any(|s| s.starts_with("-x"))
HasLanguage(args) == \E k \in 1..Len(args) : StartsWith(args[k], F_x)

\* a file of unknown language probed as C
ProbeArgs_DefaultC(file, command) ==
    LET args == SortedArgs(command) IN
    IF HasLanguage(args)
    THEN [skip |-> FALSE, args |-> args \o ProbeFlags]
    ELSE IF file_to_language(file) = "Cxx"
    THEN [skip |-> FALSE, args |-> Append(args, F_xcxx) \o ProbeFlags]
    ELSE [skip |-> FALSE, args |-> Append(args, F_xc) \o ProbeFlags]

\* the argument list built by add_toolchain_includes for a non-empty
\* command: skip is the early return Ok(()) for a file of unknown language,
\* args the list that is looked up in the cache and spawned
ProbeArgs(file, command) ==
    LET args == SortedArgs(command)
        lang == file_to_language(file)
    IN  IF HasLanguage(args)
        THEN [skip |-> FALSE, args |-> args \o ProbeFlags]
        ELSE IF lang = "C"
        THEN [skip |-> FALSE, args |-> Append(args, F_xc) \o ProbeFlags]
        ELSE IF lang = "Cxx"
        THEN [skip |-> FALSE, args |-> Append(args, F_xcxx) \o ProbeFlags]
        ELSE [skip |-> TRUE, args |-> <<>>]

\* the includes inserted after the executable in discovery order
add_toolchain_includes_InOrder(command, includes) ==
    <<command[1]>>
        \o [k \in 1..Len(includes) |-> F_isystem \o includes[k]]
        \o Tail(command)

\* add_toolchain_includes_: each include is inserted at index 1
RECURSIVE add_toolchain_includes_(_, _)
add_toolchain_includes_(command, includes) ==
    IF includes = <<>> THEN command
    ELSE add_toolchain_includes_(
             <<command[1], F_isystem \o includes[1]>> \o Tail(command),
             Tail(includes))

\* filter_map(|s| s.strip_prefix(' ')) over the lines
RECURSIVE StripSpaceLines(_)
StripSpaceLines(ls) ==
    IF ls = <<>> THEN <<>>
    ELSE IF StartsWith(ls[1], <<" ">>)
         THEN <<StripPrefix(ls[1], <<" ">>)>> \o StripSpaceLines(Tail(ls))
    ELSE StripSpaceLines(Tail(ls))

\* the includes extracted from the captured stderr of a successful probe
ExtractIncludes(stderr) == StripSpaceLines(Lines(Trim(stderr)))

(***************************************************************************)
(* The run: main.                                                          *)
(***************************************************************************)
VARIABLES
    opts,       \* the parsed Opts: ccadd, ccdel, use_cc, use_cxx, resolve
    toolchain,  \* the compilers installed on the machine (the environment)
    cdb0,       \* the database as read from the input file
    cdb,        \* the database in memory: a sequence of CdbEntry
    todo,       \* the entries par_iter_mut has not yet handed to a worker
    wk,         \* per worker: idle, or waiting for the probe it spawned
    tic,        \* per worker: its thread-local ToolchainInfoCache (hm)
    panics,     \* the panics raised by the closure, with their messages
    out,        \* the output file: Absent, or the database written to it
    mainpc,     \* main: par_iter, written or aborted
    log         \* per worker: what it did with each entry it took, in order

vars == <<opts, toolchain, cdb0, cdb, todo, wk, tic, panics, out, mainpc, log>>

Absent == <<"absent">>
NoString == [some |-> FALSE, s |-> <<>>]
Some(s) == [some |-> TRUE, s |-> s]
Idle == [pc |-> "idle", entry |-> 0, command |-> <<>>, args |-> <<>>,
         argv |-> <<>>]
EmptyCache == [k \in {} |-> <<>>]

\* Vec::contains
SeqContains(xs, x) == \E k \in 1..Len(xs) : xs[k] = x

RECURSIVE MapEscape(_)
MapEscape(command) ==
    IF command = <<>> THEN <<>>
    ELSE <<cdb_escape(command[1])>> \o MapEscape(Tail(command))

RECURSIVE DropDeleted(_, _)
DropDeleted(tokens, ccdel) ==
    IF tokens = <<>> THEN <<>>
    ELSE IF SeqContains(ccdel, tokens[1]) THEN DropDeleted(Tail(tokens), ccdel)
    ELSE <<tokens[1]>> \o DropDeleted(Tail(tokens), ccdel)

\* main.rs:241-243: -nostdinc is pushed unless some element equals it
WithNostdinc(command) ==
    IF SeqContains(command, F_nostdinc) THEN command
    ELSE Append(command, F_nostdinc)

\* the arguments compared with ccdel before they are escaped
FinalCommand_FilterRaw(command, o) ==
    Join(MapEscape(DropDeleted(command \o o.ccadd, o.ccdel)), <<" ">>)

\* main.rs:246-253: ccadd appended, every argument escaped, the tokens
\* that ccdel contains dropped, the rest joined with single spaces
FinalCommand(command, o) ==
    Join(DropDeleted(MapEscape(command \o o.ccadd), o.ccdel), <<" ">>)

\* main.rs:220-232: the override executable for the file's language
OverrideFor(file, o) ==
    IF file_to_language(file) = "C" THEN o.use_cc
    ELSE IF file_to_language(file) = "Cxx" THEN o.use_cxx
    ELSE NoString

(***************************************************************************)
(* The compiler, as the probe sees it: the outcomes a probe spawned with   *)
(* argv can have on the machine.  An executable that is not installed      *)
(* cannot be spawned; an installed one exits with a code and a captured    *)
(* stderr, or is killed by a signal.                                       *)
(***************************************************************************)
Err_gcc == <<"v", "9", "\n", " ", "/", "u", "\n", " ", "/", "l", "\n",
             "E", "n", "d", "\n">>
Err_gcc_cxx == <<"v", "9", "\n", " ", "/", "u", "/", "c", "+", "+", "\n",
                 " ", "/", "u", "\n", " ", "/", "l", "\n", "E", "n", "d", "\n">>
Err_alt == <<"v", "9", "\n", " ", "/", "o", "p", "t", "\n", "E", "n", "d", "\n">>
Err_stub == <<" ", "/", "u", "\n", " ", "/", "l">>
Err_odd == <<"v", "9", "\n", " ", " ", "/", "t", "\n", " ", "/", "u", "\n",
             "E", "n", "d", "\n">>
Err_fail == <<"c", "c", ":", " ", "e", "r", "r", "o", "r", "\n">>

X_cc == <<"c", "c">>
X_gcc == <<"g", "c", "c">>
X_gxx == <<"g", "+", "+">>

Exit(code, stderr) == [kind |-> "exit", code |-> code, stderr |-> stderr]
SpawnError == [kind |-> "spawn_error", code |-> 0, stderr |-> <<>>]
Signal == [kind |-> "signal", code |-> 0, stderr |-> <<>>]

\* a GNU-like compiler: a banner, the search list, a closing line
GnuOutcome(argv) ==
    IF argv[1] = X_gcc THEN Exit(0, Err_alt)
    ELSE IF argv[1] = X_gxx \/ SeqContains(argv, F_xcxx)
         THEN Exit(0, Err_gcc_cxx)
    ELSE Exit(0, Err_gcc)

Compiler(tc, argv) ==
    IF argv[1] \notin {X_cc, X_gcc, X_gxx} THEN {SpawnError}
    ELSE IF tc = "stub"
         THEN IF argv[1] = X_gxx THEN {Exit(0, Err_odd)}
              ELSE {Exit(0, Err_stub)}
    ELSE IF tc = "broken" /\ argv[1] = X_cc
         THEN {Exit(1, Err_fail), Exit(0, Err_gcc), Exit(0, Err_alt), Signal}
    ELSE {GnuOutcome(argv)}

\* every probe succeeds and its output is a function of its arguments
Deterministic(tc) == tc \in {"gnu", "stub"}

(***************************************************************************)
(* The closure of par_iter_mut().map, run by a worker on one entry.        *)
(***************************************************************************)
\* the closure returns: entry.command is overwritten
Complete(w, i, command, how, newtic) ==
    /\ cdb' = [cdb EXCEPT ![i].command =
                   FinalCommand(IF opts.resolve THEN WithNostdinc(command)
                                ELSE command, opts)]
    /\ todo' = todo \ {i}
    /\ wk' = [wk EXCEPT ![w] = Idle]
    /\ tic' = [tic EXCEPT ![w] = newtic]
    /\ log' = [log EXCEPT ![w] = Append(@, how)]
    /\ UNCHANGED <<opts, toolchain, cdb0, panics, out, mainpc>>

\* the closure panics (expect, an index out of bounds, unwrap): rayon
\* keeps the panic and the worker goes on; the entry is left as it was
Panic(w, i, err, how) ==
    /\ panics' = panics \cup {err}
    /\ todo' = todo \ {i}
    /\ wk' = [wk EXCEPT ![w] = Idle]
    /\ log' = [log EXCEPT ![w] = Append(@, how)]
    /\ UNCHANGED <<opts, toolchain, cdb0, cdb, tic, out, mainpc>>

\* a line of a worker's log: the entry, what happened to it (plain: no
\* resolution asked; skip: the resolver returned early; hit: includes from
\* the cache; probed, failed: the probe exited with code and stderr; panic:
\* any other panic), the argument list looked up or spawned, the includes
\* spliced
How(i, kind, args, includes, o) ==
    [entry |-> i, kind |-> kind, args |-> args, includes |-> includes,
     code |-> o.code, stderr |-> o.stderr]

NoOutcome == [kind |-> "none", code |-> 0, stderr |-> <<>>]

\* a lookup that never finds the key
CacheGet_AlwaysMiss(hm, args) == [some |-> FALSE, includes |-> <<>>]

\* self.hm.get(&args)
CacheGet(hm, args) ==
    IF args \in DOMAIN hm THEN [some |-> TRUE, includes |-> hm[args]]
    ELSE [some |-> FALSE, includes |-> <<>>]

\* main.rs:218-239 up to the spawn of the probe, and to the end of the
\* closure when no probe is spawned
Start(w) ==
    /\ mainpc = "par_iter"
    /\ wk[w].pc = "idle"
    /\ \E i \in todo :
        LET sp   == split(cdb[i].command)
            over == OverrideFor(cdb[i].file, opts)
            command == IF over.some THEN [sp.words EXCEPT ![1] = over.s]
                       ELSE sp.words
            pa   == ProbeArgs(cdb[i].file, command)
            got  == CacheGet(tic[w], pa.args)
        IN
        IF ~sp.ok
        THEN Panic(w, i, [msg |-> "can't split command"],
                   How(i, "panic", <<>>, <<>>, NoOutcome))
        ELSE IF sp.words = <<>> /\ (over.some \/ opts.resolve)
        THEN Panic(w, i, [msg |-> "index out of bounds"],
                   How(i, "panic", <<>>, <<>>, NoOutcome))
        ELSE IF ~opts.resolve
        THEN Complete(w, i, command,
                      How(i, "plain", <<>>, <<>>, NoOutcome), tic[w])
        ELSE IF pa.skip
        THEN Complete(w, i, command,
                      How(i, "skip", <<>>, <<>>, NoOutcome), tic[w])
        ELSE IF got.some
        THEN Complete(w, i,
                      add_toolchain_includes_(command, got.includes),
                      How(i, "hit", pa.args, got.includes, NoOutcome),
                      tic[w])
        ELSE /\ wk' = [wk EXCEPT ![w] =
                          [pc |-> "probing", entry |-> i,
                           command |-> command, args |-> pa.args,
                           argv |-> <<pa.args[1]>> \o Tail(pa.args)]]
             /\ todo' = todo \ {i}
             /\ UNCHANGED <<opts, toolchain, cdb0, cdb, tic, panics, out,
                            mainpc, log>>

\* the error value of main.rs:159-164
CompilerFailed(code, args, stderr) ==
    [msg |-> "compiler failed", code |-> code, args |-> args,
     stderr |-> stderr]

RECURSIVE Reverse(_)
Reverse(xs) ==
    IF xs = <<>> THEN <<>> ELSE Append(Reverse(Tail(xs)), xs[1])

\* the list stored in the order it was spliced into the command
CacheInsert_SplicedOrder(hm, args, includes) ==
    [k \in DOMAIN hm \cup {args} |->
        IF k = args THEN Reverse(includes) ELSE hm[k]]

\* hm.insert(args, includes)
CacheInsert(hm, args, includes) ==
    [k \in DOMAIN hm \cup {args} |-> IF k = args THEN includes ELSE hm[k]]

\* main.rs:155-184 and 241-253: the probe ends and the closure goes on
ProbeExit(w) ==
    /\ wk[w].pc = "probing"
    /\ \E o \in Compiler(toolchain, wk[w].argv) :
        LET i == wk[w].entry
            args == wk[w].args
            includes == ExtractIncludes(o.stderr)
        IN
        IF o.kind = "spawn_error"
        THEN Panic(w, i, [msg |-> "spawn failed"],
                   How(i, "panic", wk[w].argv, <<>>, o))
        ELSE IF o.kind = "signal"
        THEN Panic(w, i, [msg |-> "unwrap on None"],
                   How(i, "panic", wk[w].argv, <<>>, o))
        ELSE IF o.code # 0
        THEN Panic(w, i, CompilerFailed(o.code, args, o.stderr),
                   How(i, "failed", wk[w].argv, <<>>, o))
        ELSE Complete(w, i,
                      add_toolchain_includes_(wk[w].command, includes),
                      How(i, "probed", wk[w].argv, includes, o),
                      CacheInsert(tic[w], args, includes))

AllIdle == \A w \in DOMAIN wk : wk[w].pc = "idle"

\* the output written although a closure has panicked
WriteOutput_IgnoringPanics ==
    /\ mainpc = "par_iter"
    /\ todo = {}
    /\ AllIdle
    /\ out' = cdb
    /\ mainpc' = "written"
    /\ UNCHANGED <<opts, toolchain, cdb0, cdb, todo, wk, tic, panics, log>>

\* main.rs:257-258: every closure has returned, the file is created and
\* the database written to it
WriteOutput ==
    /\ mainpc = "par_iter"
    /\ todo = {}
    /\ AllIdle
    /\ panics = {}
    /\ out' = cdb
    /\ mainpc' = "written"
    /\ UNCHANGED <<opts, toolchain, cdb0, cdb, todo, wk, tic, panics, log>>

\* a closure has panicked: once the running closures have returned the
\* panic is resumed in main, which unwinds past main.rs:257
Abort ==
    /\ mainpc = "par_iter"
    /\ panics # {}
    /\ AllIdle
    /\ mainpc' = "aborted"
    /\ UNCHANGED <<opts, toolchain, cdb0, cdb, todo, wk, tic, panics, out,
                   log>>

Next ==
    \/ \E w \in DOMAIN wk : Start(w)
    \/ \E w \in DOMAIN wk : ProbeExit(w)
    \/ WriteOutput
    \/ Abort

(***************************************************************************)
(* Inputs: option sets, source files, command strings.                     *)
(***************************************************************************)
Entry(file, command) ==
    [directory |-> <<"/">>, file |-> file, command |-> command]

File_a_c == <<"a", ".", "c">>
File_b_cpp == <<"b", ".", "c", "p", "p">>
File_d_h == <<"d", ".", "h">>
File_e_py == <<"e", ".", "p", "y">>

\* cc -O2 a.c
Cmd_O2 == <<"c", "c", " ", "-", "O", "2", " ", "a", ".", "c">>
\* cc -I inc a.c
Cmd_I == <<"c", "c", " ", "-", "I", " ", "i", "n", "c", " ", "a", ".", "c">>
\* gcc -O2 a.c
Cmd_gcc == <<"g", "c", "c", " ", "-", "O", "2", " ", "a", ".", "c">>
\* cc -m32 a.c
Cmd_m32 == <<"c", "c", " ", "-", "m", "3", "2", " ", "a", ".", "c">>
\* cc -c -m32 a.c
Cmd_c_m32 == <<"c", "c", " ", "-", "c", " ", "-", "m", "3", "2", " ",
               "a", ".", "c">>
\* cc -I inc -m32 -o a.o a.c
Cmd_I_m32_o == <<"c", "c", " ", "-", "I", " ", "i", "n", "c", " ",
                 "-", "m", "3", "2", " ", "-", "o", " ", "a", ".", "o", " ",
                 "a", ".", "c">>
\* cc -x c d.h
Cmd_x_c == <<"c", "c", " ", "-", "x", " ", "c", " ", "d", ".", "h">>
\* cc -m32 e.py
Cmd_py == <<"c", "c", " ", "-", "m", "3", "2", " ", "e", ".", "p", "y">>
\* g++ -nostdinc, then -DX=a b in double quotes, then b.cpp
Cmd_quoted == <<"g", "+", "+", " ", "-", "n", "o", "s", "t", "d", "i", "n",
                "c", " ", "\"", "-", "D", "X", "=", "a", " ", "b", "\"", " ",
                "b", ".", "c", "p", "p">>

A_g == <<"-", "g">>
A_a_b == <<"a", " ", "b">>
\* a b in double quotes
D_a_b_quoted == <<"\"", "a", " ", "b", "\"">>
\* -DX=a b, no quotes
D_DX_bare == <<"-", "D", "X", "=", "a", " ", "b">>
\* -m32 in double quotes
D_m32_quoted == <<"\"", "-", "m", "3", "2", "\"">>
D_c == <<"-", "c">>
D_isystem_u == <<"-", "i", "s", "y", "s", "t", "e", "m", "/", "u">>

\* --resolve-toolchain-includes alone
O_resolve ==
    [ccadd |-> <<>>, ccdel |-> <<>>, use_cc |-> NoString,
     use_cxx |-> NoString, resolve |-> TRUE]
\* no option but --out
O_none ==
    [ccadd |-> <<>>, ccdel |-> <<>>, use_cc |-> NoString,
     use_cxx |-> NoString, resolve |-> FALSE]
\* resolution with additions and removals, and --use-cxx gcc
O_edit ==
    [ccadd |-> <<A_a_b, A_g>>,
     ccdel |-> <<D_a_b_quoted, D_DX_bare, D_m32_quoted, D_c, D_isystem_u>>,
     use_cc |-> NoString, use_cxx |-> Some(X_gcc), resolve |-> TRUE]

PoolRun ==
    { Entry(File_a_c, Cmd_O2), Entry(File_a_c, Cmd_I),
      Entry(File_a_c, Cmd_gcc) }

PoolResolver ==
    { Entry(File_a_c, Cmd_m32), Entry(File_a_c, Cmd_c_m32),
      Entry(File_a_c, Cmd_I_m32_o), Entry(File_d_h, Cmd_x_c),
      Entry(File_e_py, Cmd_py), Entry(File_b_cpp, Cmd_quoted) }

\* the characters of the round-trip specification's command strings
RoundTripChars == {"a", " ", "\"", "\\", "'"}

StringsUpTo(n) == UNION { [1..k -> RoundTripChars] : k \in 0..n }

\* the state at main.rs:216: options parsed, database read, no worker busy
InitWith(optSet, tcSet, dbSet, nworkers) ==
    /\ opts \in optSet
    /\ toolchain \in tcSet
    /\ cdb0 \in dbSet
    /\ cdb = cdb0
    /\ todo = DOMAIN cdb0
    /\ wk = [w \in 1..nworkers |-> Idle]
    /\ tic = [w \in 1..nworkers |-> EmptyCache]
    /\ panics = {}
    /\ out = Absent
    /\ mainpc = "par_iter"
    /\ log = [w \in 1..nworkers |-> <<>>]

\* the run over a database of NumEntries entries on NumWorkers workers
Init ==
    InitWith({O_resolve}, {"gnu", "broken"},
             [1..NumEntries -> PoolRun], NumWorkers)

Spec == Init /\ [][Next]_vars

\* one worker resolving NumEntries entries one after the other
InitResolver ==
    InitWith({O_resolve, O_edit}, {"gnu", "stub", "broken"},
             [1..NumEntries -> PoolResolver], 1)

SpecResolver == InitResolver /\ [][Next]_vars

\* one worker, one entry whose command is any string of at most MaxLen
\* characters
InitRoundTrip ==
    InitWith({O_none, O_resolve}, {"gnu"},
             { <<Entry(File_a_c, s)>> : s \in StringsUpTo(MaxLen) }, 1)

SpecRoundTrip == InitRoundTrip /\ [][Next]_vars

(***************************************************************************)
(* Properties of the run (Spec).                                           *)
(***************************************************************************)
Records(w) == { log[w][k] : k \in 1..Len(log[w]) }

\* the closures that returned for entry i
Returns(i) ==
    { wr \in { <<w, k>> : w \in DOMAIN log, k \in 1..NumEntries } :
        /\ wr[2] <= Len(log[wr[1]])
        /\ log[wr[1]][wr[2]].entry = i
        /\ log[wr[1]][wr[2]].kind \in {"plain", "skip", "hit", "probed"} }

InFlight(i) == \E w \in DOMAIN wk : wk[w].pc = "probing" /\ wk[w].entry = i

\* C1: a probe that exits with a non-zero code aborts the run: the output
\* file is never written, the failure stores nothing in the cache (every
\* cache entry is the list of a successful probe of that worker), and the
\* error carries the exit code and the argument vector that was spawned;
\* the output is written only when every entry was processed and no
\* closure panicked.
C1_ProbeFailureAbortsRun ==
    /\ \A w \in DOMAIN log : \A r \in Records(w) :
          r.kind = "failed" =>
              /\ r.code # 0
              /\ out = Absent
              /\ mainpc # "written"
              /\ \E e \in panics :
                    /\ e.msg = "compiler failed"
                    /\ e.code = r.code
                    /\ e.args = r.args
    /\ \A w \in DOMAIN tic : \A key \in DOMAIN tic[w] :
          \E r \in Records(w) :
              r.kind = "probed" /\ r.args = key /\ r.includes = tic[w][key]
    /\ out # Absent =>
          /\ panics = {}
          /\ out = cdb
          /\ \A i \in DOMAIN cdb0 : Returns(i) # {}

\* a run that aborted on a failed probe while the other entry was patched
C1_Witness ==
    /\ mainpc = "aborted"
    /\ \E w \in DOMAIN log : \E r \in Records(w) : r.kind = "failed"
    /\ \E i \in DOMAIN cdb : cdb[i] # cdb0[i]
    /\ out = Absent

\* the command an entry gets when it is processed alone, with an empty
\* cache, by a compiler whose output is a function of the probe arguments
Alone(e) ==
    LET sp   == split(e.command)
        over == OverrideFor(e.file, opts)
        command == IF over.some THEN [sp.words EXCEPT ![1] = over.s]
                   ELSE sp.words
        pa   == ProbeArgs(e.file, command)
        o    == CHOOSE o \in Compiler(toolchain, pa.args) : TRUE
    IN  IF ~opts.resolve THEN FinalCommand(command, opts)
        ELSE IF pa.skip THEN FinalCommand(WithNostdinc(command), opts)
        ELSE FinalCommand(
                 WithNostdinc(add_toolchain_includes_(
                     command, ExtractIncludes(o.stderr))), opts)

\* C8: with a compiler whose probes succeed and whose output is a function
\* of the probe arguments, whatever the assignment of entries to workers
\* and the interleaving, every processed entry holds the command it would
\* get alone with an empty cache, is overwritten exactly once, no other
\* field or entry changes, and the order of the entries is kept.
C8_EntriesIndependent ==
    Deterministic(toolchain) =>
        /\ DOMAIN cdb = DOMAIN cdb0
        /\ \A i \in DOMAIN cdb :
              /\ cdb[i].file = cdb0[i].file
              /\ cdb[i].directory = cdb0[i].directory
              /\ Cardinality(Returns(i)) <= 1
              /\ IF i \in todo \/ InFlight(i)
                 THEN Returns(i) = {} /\ cdb[i].command = cdb0[i].command
                 ELSE /\ Cardinality(Returns(i)) = 1
                      /\ cdb[i].command = Alone(cdb0[i])
        /\ mainpc = "written" =>
              out = [i \in DOMAIN cdb0 |->
                        [cdb0[i] EXCEPT !.command = Alone(cdb0[i])]]

\* a written run in which a worker served an entry from its cache
C8_Witness ==
    /\ Deterministic(toolchain)
    /\ mainpc = "written"
    /\ \E w \in DOMAIN log : \E r \in Records(w) :
          r.kind = "hit" /\ Len(r.includes) >= 2

C9_State ==
    \A w \in DOMAIN log :
        /\ \A k \in 1..Len(log[w]) :
              log[w][k].kind = "hit" =>
                  \E j \in 1..(k - 1) :
                      /\ log[w][j].kind = "probed"
                      /\ log[w][j].args = log[w][k].args
                      /\ log[w][j].includes = log[w][k].includes
        /\ \A j, k \in 1..Len(log[w]) :
              (/\ log[w][j].kind = "probed"
               /\ log[w][k].kind = "probed"
               /\ log[w][j].args = log[w][k].args) => j = k
        /\ \A key \in DOMAIN tic[w] :
              \E r \in Records(w) :
                  r.kind = "probed" /\ r.args = key
                  /\ r.includes = tic[w][key]

C9_Step ==
    \A w \in DOMAIN tic :
        /\ \A key \in DOMAIN tic[w] :
              key \in DOMAIN tic'[w] /\ tic'[w][key] = tic[w][key]
        /\ (wk[w].pc = "idle" /\ wk'[w].pc = "probing") =>
              wk'[w].args \notin DOMAIN tic[w]
        /\ (wk[w].pc = "probing" /\ wk'[w].pc = "idle"
            /\ panics' # panics) => tic'[w] = tic[w]

\* C9: within one worker a resolution whose key is in the cache spawns no
\* process and is served the stored list, so at most one successful probe
\* is spawned per key; the cache only grows, a stored list is never
\* removed or replaced, and a failed probe adds no entry.
C9_CachePerWorker == []C9_State /\ [][C9_Step]_vars

\* a worker that probed once and then served the same key from its cache
C9_Witness ==
    \E w \in DOMAIN log :
        /\ Len(log[w]) >= 2
        /\ log[w][1].kind = "probed"
        /\ log[w][2].kind = "hit"
        /\ log[w][2].args = log[w][1].args
        /\ DOMAIN tic[w] = {log[w][1].args}

(***************************************************************************)
(* Properties of the resolver and the patcher (SpecResolver).              *)
(***************************************************************************)
\* the tokenized command of entry i, with the override executable
Orig(i) ==
    LET sp   == split(cdb0[i].command)
        over == OverrideFor(cdb0[i].file, opts)
    IN  IF over.some THEN [sp.words EXCEPT ![1] = over.s] ELSE sp.words

\* the executable, -isystem<dn> ... -isystem<d1>, the original arguments,
\* and -nostdinc unless an argument equals it
Spliced(i, d) ==
    LET o == Orig(i) IN
    <<o[1]>>
        \o [k \in 1..Len(d) |-> F_isystem \o d[Len(d) + 1 - k]]
        \o Tail(o)
        \o (IF \E k \in 2..Len(o) : o[k] = F_nostdinc THEN <<>>
            ELSE <<F_nostdinc>>)

\* C3: with resolution on and no --ccadd/--ccdel, an entry resolved with
\* the list d1..dn, from the cache or from a fresh probe, ends as the
\* executable, -isystem<dn> ... -isystem<d1>, the original arguments in
\* their order, and a final -nostdinc unless one was present.
C3_SplicedCommand ==
    (opts.resolve /\ opts.ccadd = <<>> /\ opts.ccdel = <<>>) =>
        \A w \in DOMAIN log : \A r \in Records(w) :
            r.kind \in {"hit", "probed"} =>
                cdb[r.entry].command =
                    Join(MapEscape(Spliced(r.entry, r.includes)), <<" ">>)

\* a cache hit that spliced two directories, and a command that had its
\* own -nostdinc
C3_Witness ==
    /\ opts.resolve /\ opts.ccadd = <<>> /\ opts.ccdel = <<>>
    /\ \E w \in DOMAIN log : \E r \in Records(w) :
          r.kind = "hit" /\ Len(r.includes) >= 2
    /\ \E w \in DOMAIN log : \E r \in Records(w) :
          /\ r.kind = "probed"
          /\ \E k \in 2..Len(Orig(r.entry)) : Orig(r.entry)[k] = F_nostdinc

\* the arguments of a returned entry before they are escaped
Processed(r) ==
    (IF r.kind \in {"hit", "probed"} THEN Spliced(r.entry, r.includes)
     ELSE IF r.kind = "skip"
          THEN Spliced(r.entry, <<>>)
     ELSE Orig(r.entry)) \o opts.ccadd

\* C6: an argument of the processed command (original, injected or added)
\* is absent from the final command exactly when its escaped token equals
\* a --ccdel value; the other tokens are kept in their order.
C6_RemovalOnEscapedForm ==
    \A w \in DOMAIN log : \A r \in Records(w) :
        r.kind \in {"plain", "skip", "hit", "probed"} =>
            cdb[r.entry].command =
                Join(SelectSeq(MapEscape(Processed(r)),
                               LAMBDA t : ~SeqContains(opts.ccdel, t)),
                     <<" ">>)

\* a returned entry of which one argument was removed by a quoted --ccdel
\* value and another, equal to a --ccdel value before escaping only, kept
C6_Witness ==
    \E w \in DOMAIN log : \E r \in Records(w) :
        /\ r.kind \in {"plain", "skip", "hit", "probed"}
        /\ \E k \in 1..Len(Processed(r)) :
              /\ cdb_escape(Processed(r)[k]) # Processed(r)[k]
              /\ SeqContains(opts.ccdel, cdb_escape(Processed(r)[k]))
        /\ \E k \in 1..Len(Processed(r)) :
              /\ SeqContains(opts.ccdel, Processed(r)[k])
              /\ ~SeqContains(opts.ccdel, cdb_escape(Processed(r)[k]))

UnknownLanguage(i) == file_to_language(cdb0[i].file) = "None"

\* the resolver did nothing for the entry of record r
NoOp(w, r) ==
    /\ r.kind = "skip"
    /\ cdb[r.entry].command =
           FinalCommand(WithNostdinc(Orig(r.entry)), opts)
    /\ \A key \in DOMAIN tic[w] :
          \E q \in Records(w) : q.kind = "probed" /\ q.args = key

\* C5 as stated: for a file of unknown language the resolver is a no-op
\* whatever the command: no probe is spawned, no -isystem inserted, the
\* cache is unchanged.
C5_UnknownLanguageNoOp ==
    opts.resolve =>
        \A w \in DOMAIN log :
            /\ wk[w].pc = "probing" => ~UnknownLanguage(wk[w].entry)
            /\ \A r \in Records(w) :
                  UnknownLanguage(r.entry) => NoOp(w, r)

\* C5 amended: for a file of unknown language and a command in which no
\* argument that survives the deny-list filter (nor the executable) begins
\* with -x, the resolver is a no-op.
C5_UnknownLanguageWithoutSelector ==
    opts.resolve =>
        \A w \in DOMAIN log :
            /\ wk[w].pc = "probing" =>
                  ~(/\ UnknownLanguage(wk[w].entry)
                    /\ ~HasLanguage(SortedArgs(Orig(wk[w].entry))))
            /\ \A r \in Records(w) :
                  (/\ UnknownLanguage(r.entry)
                   /\ ~HasLanguage(SortedArgs(Orig(r.entry))))
                      => NoOp(w, r)

\* an entry of unknown language and without selector that was skipped
\* by a worker whose cache holds an entry
C5_Witness ==
    /\ opts.resolve
    /\ \E w \in DOMAIN log : \E r \in Records(w) :
          /\ UnknownLanguage(r.entry)
          /\ ~HasLanguage(SortedArgs(Orig(r.entry)))
          /\ r.kind = "skip"
          /\ DOMAIN tic[w] # {}

\* the deny-listed flags whose value may be the next argument
ValueFlags ==
    { <<"-", "I">>, <<"-", "L">>, <<"-", "i", "m", "a", "c", "r", "o", "s">>,
      F_isystem, <<"-", "i", "n", "c", "l", "u", "d", "e">>, <<"-", "D">>,
      <<"-", "o">> }

IsDenyListed(arg) ==
    \E k \in 1..Len(DEL_ARGS_MAYBETWO) : StartsWith(arg, DEL_ARGS_MAYBETWO[k])

\* the arguments without the deny-listed flags and their values
RECURSIVE WithoutDenyListed(_)
WithoutDenyListed(arguments) ==
    IF arguments = <<>> THEN <<>>
    ELSE IF arguments[1] \in ValueFlags
         THEN WithoutDenyListed(SubSeq(arguments, 3, Len(arguments)))
    ELSE IF IsDenyListed(arguments[1])
         THEN WithoutDenyListed(Tail(arguments))
    ELSE <<arguments[1]>> \o WithoutDenyListed(Tail(arguments))

DifferOnlyInDenyListed(i, j) ==
    /\ Orig(i)[1] = Orig(j)[1]
    /\ file_to_language(cdb0[i].file) = file_to_language(cdb0[j].file)
    /\ WithoutDenyListed(Tail(Orig(i))) = WithoutDenyListed(Tail(Orig(j)))

\* C2: of two commands with the same executable and language that differ
\* only in deny-listed flags and their values, resolved one after the
\* other against the same cache, the second hits the entry the first
\* stored and spawns no probe.
C2_DenyListedFlagsShareKey ==
    opts.resolve =>
        \A w \in DOMAIN log : \A j, k \in 1..Len(log[w]) :
            (/\ j < k
             /\ log[w][j].kind \in {"hit", "probed"}
             /\ log[w][k].kind \in {"hit", "probed", "failed"}
             /\ DifferOnlyInDenyListed(log[w][j].entry, log[w][k].entry))
                => /\ log[w][k].kind = "hit"
                   /\ log[w][k].args = log[w][j].args

\* one language selection with its value before the four probe flags
OneSelection(args) ==
    LET n == Len(args) IN
    /\ n >= 6
    /\ SubSeq(args, n - 3, n) = ProbeFlags
    /\ Cardinality({ k \in 2..(n - 4) : StartsWith(args[k], F_x) }) = 1
    /\ \A k \in 2..(n - 4) :
          args[k] = F_x =>
              k + 1 <= n - 4 /\ ~StartsWith(args[k + 1], <<"-">>)

\* C10: every argument list looked up or spawned carries exactly one
\* language selection together with its value, before the probe flags
\* -P -E -Wp,-v /dev/null, which come last in that order.
C10_ProbeHasLanguage ==
    \A w \in DOMAIN log :
        /\ wk[w].pc = "probing" => OneSelection(wk[w].argv)
        /\ \A key \in DOMAIN tic[w] : OneSelection(key)
        /\ \A r \in Records(w) :
              r.kind \in {"hit", "probed", "failed"} => OneSelection(r.args)

\* the lines of the stream that begin with exactly one space, without it
OneSpaceLines(stderr) ==
    LET ls == SelectSeq(Lines(stderr),
                        LAMBDA l : /\ Len(l) >= 1
                                   /\ l[1] = " "
                                   /\ (Len(l) >= 2 => l[2] # " "))
    IN  [k \in 1..Len(ls) |-> Tail(ls[k])]

\* C4: the include list spliced and stored for a successful probe is, in
\* stream order, the lines of the captured stream that begin with exactly
\* one space, that space removed, the first line included.
C4_IncludesAreOneSpaceLines ==
    \A w \in DOMAIN log : \A r \in Records(w) :
        r.kind = "probed" =>
            /\ r.includes = OneSpaceLines(r.stderr)
            /\ tic[w][r.args] = OneSpaceLines(r.stderr)

(***************************************************************************)
(* The round trip of the tokenizer and the escaper (SpecRoundTrip).        *)
(***************************************************************************)
\* no option changes the command: it is tokenized, escaped and joined
PlainOptions ==
    /\ ~opts.resolve
    /\ opts.ccadd = <<>> /\ opts.ccdel = <<>>
    /\ ~opts.use_cc.some /\ ~opts.use_cxx.some

EscapeExamples ==
    /\ cdb_escape(<<>>) = <<"\"", "\"">>
    /\ cdb_escape(<<"a", " ", "b">>) = <<"\"", "a", " ", "b", "\"">>

\* C7 as stated: a command string that tokenizes into at least one
\* argument, with no empty argument and no quote or backslash character
\* in an argument, is given back unchanged by tokenizing, escaping every
\* argument and joining with single spaces.
C7_RoundTrip ==
    /\ EscapeExamples
    /\ PlainOptions =>
          \A w \in DOMAIN log : \A r \in Records(w) :
              LET s == cdb0[r.entry].command
                  words == split(s).words
              IN  (/\ r.kind = "plain"
                   /\ words # <<>>
                   /\ \A k \in 1..Len(words) :
                         /\ words[k] # <<>>
                         /\ ~Contains(words[k], "\"")
                         /\ ~Contains(words[k], "'")
                         /\ ~Contains(words[k], "\\"))
                      => cdb[r.entry].command = s

\* the index of the double quote that closes a quoted argument in the
\* escaper's form, whose body from i on holds a space or an escape
\* (special) and backslashes only before a double quote or a backslash;
\* 0 if there is none
RECURSIVE QuotedEnd(_, _, _)
QuotedEnd(s, i, special) ==
    IF i > Len(s) THEN 0
    ELSE IF s[i] = "\"" THEN (IF special THEN i ELSE 0)
    ELSE IF s[i] = "\\"
         THEN IF i + 1 <= Len(s) /\ s[i + 1] \in {"\"", "\\"}
              THEN QuotedEnd(s, i + 2, TRUE)
              ELSE 0
    ELSE QuotedEnd(s, i + 1, special \/ s[i] = " ")

\* the first index from i on that holds a space, a quote or a backslash
RECURSIVE PlainEnd(_, _)
PlainEnd(s, i) ==
    IF i <= Len(s) /\ s[i] \notin {" ", "\n", "\"", "'", "\\"}
    THEN PlainEnd(s, i + 1)
    ELSE i

\* from i on, s is arguments in the escaper's form separated by single
\* spaces: each a run of plain characters, or one double-quoted token
RECURSIVE EscapedForm(_, _)
EscapedForm(s, i) ==
    IF i > Len(s) THEN FALSE
    ELSE LET e == IF s[i] = "\""
                  THEN (IF QuotedEnd(s, i + 1, FALSE) = 0 THEN 0
                        ELSE QuotedEnd(s, i + 1, FALSE) + 1)
                  ELSE (IF PlainEnd(s, i) = i THEN 0 ELSE PlainEnd(s, i))
         IN  /\ e # 0
             /\ \/ e = Len(s) + 1
                \/ e <= Len(s) /\ s[e] = " " /\ EscapedForm(s, e + 1)

\* C7 amended: a command string that tokenizes into at least one argument
\* and no empty one is given back unchanged exactly when it is already in
\* the escaper's form: arguments separated by exactly one space, nothing
\* before or after them, each either free of space, quote and backslash,
\* or one double-quoted token whose body holds a space or an escape and a
\* backslash only before a double quote or a backslash.
C7_RoundTripOfEscapedForm ==
    /\ EscapeExamples
    /\ PlainOptions =>
          \A w \in DOMAIN log : \A r \in Records(w) :
              LET s == cdb0[r.entry].command
                  words == split(s).words
              IN  (/\ r.kind = "plain"
                   /\ words # <<>>
                   /\ \A k \in 1..Len(words) : words[k] # <<>>)
                      => (cdb[r.entry].command = s <=> EscapedForm(s, 1))

\* a written run whose command holds a quoted argument in escaped form
C7_Witness ==
    /\ PlainOptions
    /\ mainpc = "written"
    /\ \E w \in DOMAIN log : \E r \in Records(w) :
          /\ r.kind = "plain"
          /\ EscapedForm(cdb0[r.entry].command, 1)
          /\ Contains(cdb0[r.entry].command, "\"")
          /\ out[r.entry].command = cdb0[r.entry].command

====
